---------------------------- MODULE Spec2Model ----------------------------
(***************************************************************************)
(* Model of the knapsack DP visualizer (src/src/knapsack.rs).              *)
(*                                                                         *)
(* A text (Rust String / &str) is a sequence of one-character strings.     *)
(* Option<T> is a sequence of length 0 (None) or 1 (Some(x)).              *)
(* Result<Vec<usize>, String> is a record [ok, val, err].                  *)
(* A message built by format! is the concatenation of its pieces: the      *)
(* literal parts are kept as whole strings, the interpolated parts are the *)
(* characters the formatting produces.                                     *)
(* A table Vec<Vec<usize>> is a sequence of rows; Rust's table[i][c] is    *)
(* Cell(table, i, c) = table[i + 1][c + 1].                                *)
(* pc is the position of the running handler: the signal writes it has     *)
(* still to make, in order; empty when no handler runs. The handlers are   *)
(* whole actions in Spec and SpecDP, and sequences of single writes in     *)
(* SpecWrites.                                                             *)
(***************************************************************************)
EXTENDS Integers, Sequences, FiniteSets, TLC

VARIABLES capacity_input, weights_input, benefits_input, error_msg,
          dp_table, item_weights, item_benefits, capacity, revealed, pc

vars == <<capacity_input, weights_input, benefits_input, error_msg,
          dp_table, item_weights, item_benefits, capacity, revealed, pc>>

stored == <<dp_table, item_weights, item_benefits, capacity, revealed>>

form == <<capacity_input, weights_input, benefits_input>>

-----------------------------------------------------------------------------
(* Option and Result                                                       *)

None == <<>>

Some(x) == <<x>>

Ok(v) == [ok |-> TRUE, val |-> v, err |-> <<>>]

Err(e) == [ok |-> FALSE, val |-> <<>>, err |-> e]

-----------------------------------------------------------------------------
(* Texts: str::trim, str::split(','), str::parse::<usize>, to_string       *)

Digits == <<"0", "1", "2", "3", "4", "5", "6", "7", "8", "9">>

IsDigit(ch) == \E d \in 1..10 : Digits[d] = ch

DigitValue(ch) == (CHOOSE d \in 1..10 : Digits[d] = ch) - 1

(* char::is_whitespace, the test of str::trim: the code points with the    *)
(* Unicode property White_Space. A character outside ASCII is written by   *)
(* its code point.                                                         *)
WhiteSpace ==
    { "\t", "\n", "U+000B", "\f", "\r", " ", "U+0085", "U+00A0", "U+1680",
      "U+2000", "U+2001", "U+2002", "U+2003", "U+2004", "U+2005", "U+2006",
      "U+2007", "U+2008", "U+2009", "U+200A", "U+2028", "U+2029", "U+202F",
      "U+205F", "U+3000" }

IsSpace(ch) == ch \in WhiteSpace

RECURSIVE trim_start(_)
trim_start(s) ==
    IF s # <<>> /\ IsSpace(Head(s)) THEN trim_start(Tail(s)) ELSE s

RECURSIVE trim_end(_)
trim_end(s) ==
    IF s # <<>> /\ IsSpace(s[Len(s)])
    THEN trim_end(SubSeq(s, 1, Len(s) - 1))
    ELSE s

trim(s) == trim_end(trim_start(s))

(* s.split(','): the pieces between the commas; never empty, the empty     *)
(* text gives the one piece "".                                            *)
RECURSIVE split(_)
split(s) ==
    IF \E k \in 1..Len(s) : s[k] = ","
    THEN LET k == CHOOSE j \in 1..Len(s) :
                     s[j] = "," /\ \A h \in 1..(j - 1) : s[h] # ","
         IN  <<SubSeq(s, 1, k - 1)>> \o split(SubSeq(s, k + 1, Len(s)))
    ELSE <<s>>

(* A usize beyond the integers of the model checker is a wide number: the  *)
(* sequence of its decimal digits, most significant first, without leading *)
(* zeros. usize has 32 bits on the wasm32 target the application is built  *)
(* for and 64 bits on a 64-bit host.                                       *)

UsizeMax32 == <<4, 2, 9, 4, 9, 6, 7, 2, 9, 5>>

UsizeMax64 == <<1, 8, 4, 4, 6, 7, 4, 4, 0, 7, 3, 7, 0, 9, 5, 5, 1, 6, 1, 5>>

UsizeMaxOf(bits) == IF bits = 32 THEN UsizeMax32 ELSE UsizeMax64

Reverse(s) == [k \in 1..Len(s) |-> s[Len(s) + 1 - k]]

RECURSIVE WNorm(_)
WNorm(d) == IF Len(d) > 1 /\ Head(d) = 0 THEN WNorm(Tail(d)) ELSE d

WLe(a, b) ==
    \/ Len(a) < Len(b)
    \/ /\ Len(a) = Len(b)
       /\ \/ a = b
          \/ \E k \in 1..Len(a) : a[k] < b[k] /\ \A j \in 1..(k - 1) : a[j] = b[j]

(* Addition and subtraction on the digits, least significant first.        *)
RECURSIVE WAddRev(_, _, _)
WAddRev(x, y, carry) ==
    IF x = <<>> /\ y = <<>> THEN (IF carry = 0 THEN <<>> ELSE <<carry>>)
    ELSE LET dx == IF x = <<>> THEN 0 ELSE Head(x)
             dy == IF y = <<>> THEN 0 ELSE Head(y)
             s  == dx + dy + carry
         IN  <<s % 10>> \o WAddRev(IF x = <<>> THEN x ELSE Tail(x),
                                   IF y = <<>> THEN y ELSE Tail(y), s \div 10)

RECURSIVE WSubRev(_, _, _)
WSubRev(x, y, borrow) ==
    IF x = <<>> THEN <<>>
    ELSE LET dy == IF y = <<>> THEN 0 ELSE Head(y)
             s  == Head(x) - dy - borrow
         IN  <<(s + 10) % 10>> \o WSubRev(Tail(x), IF y = <<>> THEN y ELSE Tail(y),
                                          IF s < 0 THEN 1 ELSE 0)

WAdd(a, b) == WNorm(Reverse(WAddRev(Reverse(a), Reverse(b), 0)))

(* a - b for a >= b                                                        *)
WSub(a, b) == WNorm(Reverse(WSubRev(Reverse(a), Reverse(b), 0)))

WZero == <<0>>

WOne == <<1>>

(* a + b in a usize of maximum mx, wrapping: modulo mx + 1.                *)
wrapping_add(a, b, mx) ==
    LET s == WAdd(a, b)
    IN  IF WLe(s, mx) THEN s ELSE WSub(s, WAdd(mx, WOne))

RECURSIVE digits_value(_)
digits_value(ds) ==
    IF ds = <<>> THEN 0
    ELSE 10 * digits_value(SubSeq(ds, 1, Len(ds) - 1)) + DigitValue(ds[Len(ds)])

(* t.parse::<usize>(): an optional '+', then one or more decimal digits;   *)
(* a value above usize::MAX is an Err (PosOverflow). Result as an Option:  *)
(* None for Err(_). The value is an integer of the model checker and the   *)
(* bound is that of the 64-bit host; wide_parse_usize is the same function *)
(* with the value as a wide number and the bound of either target.         *)
parse_usize(t) ==
    LET ds == IF t # <<>> /\ Head(t) = "+" THEN Tail(t) ELSE t
    IN  IF /\ ds # <<>>
           /\ \A k \in 1..Len(ds) : IsDigit(ds[k])
           /\ WLe(WNorm([k \in 1..Len(ds) |-> DigitValue(ds[k])]), UsizeMax64)
        THEN Some(digits_value(ds))
        ELSE None

RECURSIVE to_string(_)
to_string(v) ==
    IF v < 10 THEN <<Digits[v + 1]>>
    ELSE to_string(v \div 10) \o <<Digits[(v % 10) + 1]>>


-----------------------------------------------------------------------------
(* Parsing helper and DP solver                                            *)

(* Mutant of parse_list: the error names the last bad piece.               *)
parse_list_last(s) ==
    LET ts  == split(s)
        bad == {k \in 1..Len(ts) : parse_usize(trim(ts[k])) = None}
    IN  IF bad = {}
        THEN Ok([k \in 1..Len(ts) |-> parse_usize(trim(ts[k]))[1]])
        ELSE LET k == CHOOSE j \in bad : \A h \in bad : j >= h
             IN  Err(<<"'">> \o trim(ts[k]) \o <<"' is not a valid positive integer">>)

(* parse_list: every piece is trimmed and parsed; collect() gives the      *)
(* first error in list order, or the vector of all values.                 *)
parse_list(s) ==
    LET ts  == split(s)
        bad == {k \in 1..Len(ts) : parse_usize(trim(ts[k])) = None}
    IN  IF bad = {}
        THEN Ok([k \in 1..Len(ts) |-> parse_usize(trim(ts[k]))[1]])
        ELSE LET k == CHOOSE j \in bad : \A h \in bad : j <= h
             IN  Err(<<"'">> \o trim(ts[k]) \o <<"' is not a valid positive integer">>)

Max(a, b) == IF a >= b THEN a ELSE b

Cell(table, i, c) == table[i + 1][c + 1]

(* Mutants of table_row: the item that fits exactly is not taken; the     *)
(* item is always taken when it fits.                                      *)
table_row_ge(prev, w, b, cap) ==
    [c1 \in 1..(cap + 1) |->
        LET c == c1 - 1
        IN  IF w >= c THEN prev[c1] ELSE Max(prev[c1], prev[c1 - w] + b)]

table_row_nomax(prev, w, b, cap) ==
    [c1 \in 1..(cap + 1) |->
        LET c == c1 - 1
        IN  IF w > c THEN prev[c1] ELSE prev[c1 - w] + b]

(* Mutant of table_row: an item that fits adds to the value above instead  *)
(* of competing with it.                                                   *)
table_row_sum(prev, w, b, cap) ==
    [c1 \in 1..(cap + 1) |->
        LET c == c1 - 1
        IN  IF w > c THEN prev[c1] ELSE prev[c1] + prev[c1 - w] + b]

(* One pass of the inner loop: row i from row i - 1 (prev), for the item   *)
(* of weight w and benefit b.                                              *)
table_row(prev, w, b, cap) ==
    [c1 \in 1..(cap + 1) |->
        LET c == c1 - 1
        IN  IF w > c THEN prev[c1] ELSE Max(prev[c1], prev[c1 - w] + b)]

RECURSIVE table_rows(_, _, _, _)
table_rows(i, cap, weights, benefits) ==
    IF i = 0 THEN <<[c1 \in 1..(cap + 1) |-> 0]>>
    ELSE LET t == table_rows(i - 1, cap, weights, benefits)
         IN  Append(t, table_row(t[i], weights[i], benefits[i], cap))

knapsack_table(cap, weights, benefits) ==
    table_rows(Len(weights), cap, weights, benefits)

-----------------------------------------------------------------------------
(* Error messages                                                          *)

MsgCapacity == <<"Capacity (m) must be a positive integer.">>

MsgWeights(e) == <<"Weights: ">> \o e

MsgEmptyWeights == <<"Enter at least one weight.">>

MsgBenefits(e) == <<"Benefits: ">> \o e

(* Mutant of MsgLength: the two counts in the other order.                 *)
MsgLength_swapped(wlen, blen) ==
    <<"Number of weights (">> \o to_string(blen)
        \o <<") must equal number of benefits (">> \o to_string(wlen) \o <<").">>

MsgLength(wlen, blen) ==
    <<"Number of weights (">> \o to_string(wlen)
        \o <<") must equal number of benefits (">> \o to_string(blen) \o <<").">>

(* Mutant of parse_capacity: the guard v > 0 is missing.                   *)
parse_capacity_zero(cap_str) == parse_usize(trim(cap_str))

(* cap_str.trim().parse::<usize>() with the guard v > 0                    *)
parse_capacity(cap_str) ==
    LET r == parse_usize(trim(cap_str))
    IN  IF r # None /\ r[1] > 0 THEN r ELSE None

(* The validation of on_solve: the error message to show, or None.         *)
solve_error(cap_str, w_str, b_str) ==
    LET ws == parse_list(w_str)
        bs == parse_list(b_str)
    IN  IF parse_capacity(cap_str) = None THEN Some(MsgCapacity)
        ELSE IF ~ws.ok THEN Some(MsgWeights(ws.err))
        ELSE IF ws.val = <<>> THEN Some(MsgEmptyWeights)
        ELSE IF ~bs.ok THEN Some(MsgBenefits(bs.err))
        ELSE IF Len(ws.val) # Len(bs.val)
             THEN Some(MsgLength(Len(ws.val), Len(bs.val)))
        ELSE None

(* Mutant of step_error: the benefits are checked before the weights.      *)
step_error_benefits_first(cap_str, w_str, b_str) ==
    LET ws == parse_list(w_str)
        bs == parse_list(b_str)
    IN  IF parse_capacity(cap_str) = None THEN Some(MsgCapacity)
        ELSE IF ~bs.ok THEN Some(MsgBenefits(bs.err))
        ELSE IF ~ws.ok THEN Some(MsgWeights(ws.err))
        ELSE IF ws.val = <<>> THEN Some(MsgEmptyWeights)
        ELSE IF Len(ws.val) # Len(bs.val)
             THEN Some(MsgLength(Len(ws.val), Len(bs.val)))
        ELSE None

(* The same validation as written a second time in on_step.                *)
step_error(cap_str, w_str, b_str) ==
    LET ws == parse_list(w_str)
        bs == parse_list(b_str)
    IN  IF parse_capacity(cap_str) = None THEN Some(MsgCapacity)
        ELSE IF ~ws.ok THEN Some(MsgWeights(ws.err))
        ELSE IF ws.val = <<>> THEN Some(MsgEmptyWeights)
        ELSE IF ~bs.ok THEN Some(MsgBenefits(bs.err))
        ELSE IF Len(ws.val) # Len(bs.val)
             THEN Some(MsgLength(Len(ws.val), Len(bs.val)))
        ELSE None

-----------------------------------------------------------------------------
(* Handlers                                                                *)

(* Total data cells = n_items * (capacity + 1), 0 without a table.         *)
total_cells_of(t) ==
    IF t = None THEN 0
    ELSE (IF Len(t[1]) >= 1 THEN Len(t[1]) - 1 ELSE 0) * Len(t[1][1])

total_cells == total_cells_of(dp_table)

(* Mutant of solve_reveal: Solve starts the step walk.                     *)
solve_reveal_first == Some(1)

(* What on_solve writes once the inputs are validated.                     *)
solve_reveal == None

(* Mutant of first_reveal: the first step reveals nothing.                 *)
first_reveal_zero == Some(0)

(* What on_step writes for the first step, once the inputs are validated.  *)
first_reveal == Some(1)

(* Mutant of step_reveal: the walk ends one cell early.                    *)
step_reveal_ge(rev, total) ==
    IF rev = None THEN Some(1)
    ELSE LET next == rev[1] + 1
         IN  IF next >= total THEN None ELSE Some(next)

(* on_step with a table: the next value of revealed.                       *)
step_reveal(rev, total) ==
    IF rev = None THEN Some(1)
    ELSE LET next == rev[1] + 1
         IN  IF next > total THEN None ELSE Some(next)

(* Mutant of solve_store: the capacity is not stored.                      *)
solve_store_no_capacity(cap_str, w_str, b_str) ==
    LET ws  == parse_list(w_str).val
        bs  == parse_list(b_str).val
    IN  /\ capacity' = capacity
        /\ item_weights' = ws
        /\ item_benefits' = bs
        /\ dp_table' = Some(knapsack_table(parse_capacity(cap_str)[1], ws, bs))
        /\ revealed' = solve_reveal

(* The writes of a validated on_solve.                                     *)
solve_store(cap_str, w_str, b_str) ==
    LET cap == parse_capacity(cap_str)[1]
        ws  == parse_list(w_str).val
        bs  == parse_list(b_str).val
    IN  /\ capacity' = cap
        /\ item_weights' = ws
        /\ item_benefits' = bs
        /\ dp_table' = Some(knapsack_table(cap, ws, bs))
        /\ revealed' = solve_reveal

(* The writes of a validated first on_step.                                *)
step_store(cap_str, w_str, b_str) ==
    LET cap == parse_capacity(cap_str)[1]
        ws  == parse_list(w_str).val
        bs  == parse_list(b_str).val
    IN  /\ capacity' = cap
        /\ item_weights' = ws
        /\ item_benefits' = bs
        /\ dp_table' = Some(knapsack_table(cap, ws, bs))
        /\ revealed' = first_reveal

(* Mutant of on_solve: the message of an earlier failure is not cleared.   *)
on_solve_keeps_error ==
    LET e == solve_error(capacity_input, weights_input, benefits_input)
    IN  /\ error_msg' = IF e # None THEN e ELSE error_msg
        /\ IF e # None
           THEN UNCHANGED stored
           ELSE solve_store(capacity_input, weights_input, benefits_input)
        /\ UNCHANGED <<form, pc>>

(* on_solve: validate the form, then store the instance and its table.     *)
on_solve ==
    LET e == solve_error(capacity_input, weights_input, benefits_input)
    IN  /\ error_msg' = e
        /\ IF e # None
           THEN UNCHANGED stored
           ELSE solve_store(capacity_input, weights_input, benefits_input)
        /\ UNCHANGED <<form, pc>>

(* Mutant of on_step: a Step with a table validates the form again.        *)
on_step_revalidate ==
    LET e == step_error(capacity_input, weights_input, benefits_input)
    IN  IF dp_table = None
        THEN /\ error_msg' = e
             /\ IF e # None
                THEN UNCHANGED stored
                ELSE step_store(capacity_input, weights_input, benefits_input)
             /\ UNCHANGED <<form, pc>>
        ELSE /\ error_msg' = e
             /\ revealed' = IF e # None THEN revealed
                            ELSE step_reveal(revealed, total_cells)
             /\ UNCHANGED <<dp_table, item_weights, item_benefits, capacity>>
             /\ UNCHANGED <<form, pc>>

on_step ==
    IF dp_table = None
    THEN LET e == step_error(capacity_input, weights_input, benefits_input)
         IN  /\ error_msg' = e
             /\ IF e # None
                THEN UNCHANGED stored
                ELSE step_store(capacity_input, weights_input, benefits_input)
             /\ UNCHANGED <<form, pc>>
    ELSE /\ error_msg' = None
         /\ revealed' = step_reveal(revealed, total_cells)
         /\ UNCHANGED <<dp_table, item_weights, item_benefits, capacity>>
         /\ UNCHANGED <<form, pc>>

-----------------------------------------------------------------------------
(* The table view: what the renderer derives from the state. These are     *)
(* read only where a table is present.                                     *)

n_items == Len(item_weights)

n_cols == capacity + 1

linear(i, c) == (i - 1) * n_cols + c

(* Mutant of is_visible: one cell more is shown.                           *)
is_visible_le(row, col, ncols) ==
    IF revealed = None THEN TRUE
    ELSE (row - 1) * ncols + col <= revealed[1]

is_visible(row, col, ncols) ==
    IF revealed = None THEN TRUE
    ELSE (row - 1) * ncols + col < revealed[1]

(* Mutant of active_linear: the count itself, not the last revealed index. *)
active_linear_nosub ==
    IF revealed = None THEN None ELSE Some(revealed[1])

(* revealed.and_then(|r| r.checked_sub(1))                                 *)
active_linear ==
    IF revealed = None THEN None
    ELSE IF revealed[1] >= 1 THEN Some(revealed[1] - 1) ELSE None

is_active(i, c) == active_linear = Some(linear(i, c))

(* Mutant of took_item: a tie with the cell above counts as took.          *)
took_item_ge(i, c) ==
    LET table == dp_table[1]
        wi    == item_weights[i]
        bi    == item_benefits[i]
        val   == table[i + 1][c + 1]
    IN  /\ is_visible(i, c, n_cols)
        /\ wi <= c
        /\ val = table[i][c - wi + 1] + bi
        /\ val >= table[i][c + 1]

took_item(i, c) ==
    LET table == dp_table[1]
        wi    == item_weights[i]
        bi    == item_benefits[i]
        val   == Cell(table, i, c)
    IN  /\ is_visible(i, c, n_cols)
        /\ wi <= c
        /\ val = Cell(table, i - 1, c - wi) + bi
        /\ val > Cell(table, i - 1, c)

cls(i, c) ==
    IF ~is_visible(i, c, n_cols) THEN "cell cell-hidden"
    ELSE IF is_active(i, c) THEN "cell cell-active"
    ELSE IF took_item(i, c) THEN "cell cell-took"
    ELSE "cell"

cell_text(i, c) ==
    IF is_visible(i, c, n_cols) THEN to_string(Cell(dp_table[1], i, c)) ELSE <<>>

(* The progress bar: total, done, percent and label.                       *)

progress_total == total_cells

(* Mutant of progress_done: all revealed counts as nothing done.           *)
progress_done_zero == IF revealed = None THEN 0 ELSE revealed[1]

(* revealed.get().unwrap_or(total)                                         *)
progress_done == IF revealed = None THEN progress_total ELSE revealed[1]

progress_pct ==
    IF progress_total > 0 THEN (progress_done * 100) \div progress_total ELSE 0

(* The completion text; U+2713 stands for the check mark it starts with.   *)
MsgComplete == <<"U+2713 Complete">>

(* Mutant of progress_label: complete only beyond the total.               *)
progress_label_gt ==
    IF progress_total = 0 THEN <<>>
    ELSE IF progress_done > progress_total THEN MsgComplete
    ELSE to_string(progress_done) \o <<" / ">> \o to_string(progress_total)
            \o <<" cells">>

(* The text under the progress bar.                                        *)
progress_label ==
    IF progress_total = 0 THEN <<>>
    ELSE IF progress_done >= progress_total THEN MsgComplete
    ELSE to_string(progress_done) \o <<" / ">> \o to_string(progress_total)
            \o <<" cells">>

-----------------------------------------------------------------------------
(* The form: the texts a user types. Init holds the texts the component    *)
(* is constructed with.                                                    *)

DefaultCapacity == <<"6">>

DefaultWeights == <<"2", ",", " ", "3", ",", " ", "4">>

DefaultBenefits == <<"3", ",", " ", "4", ",", " ", "5">>

CapacityTexts ==
    { DefaultCapacity, <<" ", "2", " ">>, <<"0">>, <<"x">> }

WeightsTexts ==
    { DefaultWeights, <<"1", ",", "2">>, <<"2", ",", "\t", "+", "1">>,
      <<>>, <<" ", " ">>, <<"2", ",", "x", ",", "4">> }

BenefitsTexts ==
    { DefaultBenefits, <<"1", ",", "2", ",", "3">>, <<"0", ",", "2">>,
      <<"3", ",", "0", "3">>, <<" ", "-", "1", ",", "y">>, <<>> }

set_capacity_input ==
    /\ \E v \in CapacityTexts : capacity_input' = v
    /\ UNCHANGED <<weights_input, benefits_input, error_msg, stored, pc>>

set_weights_input ==
    /\ \E v \in WeightsTexts : weights_input' = v
    /\ UNCHANGED <<capacity_input, benefits_input, error_msg, stored, pc>>

set_benefits_input ==
    /\ \E v \in BenefitsTexts : benefits_input' = v
    /\ UNCHANGED <<capacity_input, weights_input, error_msg, stored, pc>>

InitSolver ==
    /\ error_msg = None
    /\ dp_table = None
    /\ item_weights = <<>>
    /\ item_benefits = <<>>
    /\ capacity = 0
    /\ revealed = Some(0)
    /\ pc = <<>>

Init ==
    /\ capacity_input = DefaultCapacity
    /\ weights_input = DefaultWeights
    /\ benefits_input = DefaultBenefits
    /\ InitSolver

Next ==
    \/ set_capacity_input
    \/ set_weights_input
    \/ set_benefits_input
    \/ on_solve
    \/ on_step

Spec == Init /\ [][Next]_vars

-----------------------------------------------------------------------------
(* The handlers write by write. A handler is a synchronous closure: it     *)
(* computes from the signals it reads and sets its signals one after the   *)
(* other, in the order of the source, and returns. pc holds the writes it  *)
(* has still to make. When the view closures, the readers of the signals,  *)
(* run is decided by the reactive runtime and is not part of this model.   *)

Write(sig, val) == [sig |-> sig, val |-> val]

(* The writes of a validated instance, ending with the reveal state rev.   *)
instance_writes(cap_str, w_str, b_str, rev) ==
    LET cap == parse_capacity(cap_str)[1]
        ws  == parse_list(w_str).val
        bs  == parse_list(b_str).val
    IN  << Write("capacity", cap),
           Write("item_weights", ws),
           Write("item_benefits", bs),
           Write("dp_table", Some(knapsack_table(cap, ws, bs))),
           Write("revealed", rev) >>

(* The writes of on_solve, in order.                                       *)
solve_writes(cap_str, w_str, b_str) ==
    LET e == solve_error(cap_str, w_str, b_str)
    IN  <<Write("error_msg", None)>> \o
        (IF e # None THEN <<Write("error_msg", e)>>
         ELSE instance_writes(cap_str, w_str, b_str, solve_reveal))

(* The writes of on_step, in order.                                        *)
step_writes(cap_str, w_str, b_str) ==
    <<Write("error_msg", None)>> \o
    (IF dp_table = None
     THEN LET e == step_error(cap_str, w_str, b_str)
          IN  IF e # None THEN <<Write("error_msg", e)>>
              ELSE instance_writes(cap_str, w_str, b_str, first_reveal)
     ELSE <<Write("revealed", step_reveal(revealed, total_cells))>>)

Idle == Len(pc) = 0

w_on_solve ==
    /\ Idle
    /\ pc' = solve_writes(capacity_input, weights_input, benefits_input)
    /\ UNCHANGED <<form, error_msg, stored>>

w_on_step ==
    /\ Idle
    /\ pc' = step_writes(capacity_input, weights_input, benefits_input)
    /\ UNCHANGED <<form, error_msg, stored>>

(* The running handler makes its next write.                               *)
w_write ==
    /\ ~Idle
    /\ LET w == Head(pc)
       IN  /\ error_msg' = IF w.sig = "error_msg" THEN w.val ELSE error_msg
           /\ capacity' = IF w.sig = "capacity" THEN w.val ELSE capacity
           /\ item_weights' = IF w.sig = "item_weights" THEN w.val ELSE item_weights
           /\ item_benefits' = IF w.sig = "item_benefits" THEN w.val ELSE item_benefits
           /\ dp_table' = IF w.sig = "dp_table" THEN w.val ELSE dp_table
           /\ revealed' = IF w.sig = "revealed" THEN w.val ELSE revealed
    /\ pc' = Tail(pc)
    /\ UNCHANGED form

WritesCapacityTexts == { DefaultCapacity, <<" ", "2", " ">>, <<"0">> }

WritesWeightsTexts == { DefaultWeights, <<"1", ",", "2">> }

WritesBenefitsTexts == { DefaultBenefits, <<"0", ",", "2">> }

(* An input event is a handler too: it runs when no other handler runs.    *)
w_set_input ==
    /\ Idle
    /\ \/ \E v \in WritesCapacityTexts :
            capacity_input' = v /\ UNCHANGED <<weights_input, benefits_input>>
       \/ \E v \in WritesWeightsTexts :
            weights_input' = v /\ UNCHANGED <<capacity_input, benefits_input>>
       \/ \E v \in WritesBenefitsTexts :
            benefits_input' = v /\ UNCHANGED <<capacity_input, weights_input>>
    /\ UNCHANGED <<error_msg, stored, pc>>

NextWrites == w_set_input \/ w_on_solve \/ w_on_step \/ w_write

SpecWrites == Init /\ [][NextWrites]_vars

-----------------------------------------------------------------------------
(* The solver on a family of instances: the form starts with the texts of  *)
(* a capacity in 1..MaxCapacity and of lists of 1..MaxItems values in      *)
(* 0..MaxValue, or with the default texts, and is solved or stepped.       *)

MaxItems == 2

MaxValue == 2

MaxCapacity == 3

RECURSIVE list_text(_)
list_text(xs) ==
    IF Len(xs) = 1 THEN to_string(xs[1])
    ELSE to_string(Head(xs)) \o <<",">> \o list_text(Tail(xs))

Lists == UNION {[1..k -> 0..MaxValue] : k \in 1..MaxItems}

InitDP ==
    /\ \/ /\ capacity_input \in {to_string(m) : m \in 1..MaxCapacity}
          /\ weights_input \in {list_text(xs) : xs \in Lists}
          /\ benefits_input \in {list_text(xs) : xs \in Lists}
       \/ /\ capacity_input = DefaultCapacity
          /\ weights_input = DefaultWeights
          /\ benefits_input = DefaultBenefits
    /\ InitSolver

NextDP == on_solve \/ on_step

SpecDP == InitDP /\ [][NextDP]_vars

-----------------------------------------------------------------------------
(* The solver at machine width, for a target of 32 or 64 bits: capacity,   *)
(* weights and benefits are parsed at that width, and an addition that     *)
(* overflows panics in a build with overflow checks and wraps in a build   *)
(* without. Weights, benefits and table cells are wide numbers; the        *)
(* capacity is the number of columns less one and is kept an integer.      *)

(* t.parse::<usize>() at width mx: a value above mx is an Err.             *)
wide_parse_usize(t, mx) ==
    LET ds == IF t # <<>> /\ Head(t) = "+" THEN Tail(t) ELSE t
        v  == WNorm([k \in 1..Len(ds) |-> DigitValue(ds[k])])
    IN  IF ds # <<>> /\ (\A k \in 1..Len(ds) : IsDigit(ds[k])) /\ WLe(v, mx)
        THEN Some(v)
        ELSE None

wide_parse_list(s, mx) ==
    LET ts  == split(s)
        bad == {k \in 1..Len(ts) : wide_parse_usize(trim(ts[k]), mx) = None}
    IN  IF bad = {}
        THEN Ok([k \in 1..Len(ts) |-> wide_parse_usize(trim(ts[k]), mx)[1]])
        ELSE LET k == CHOOSE j \in bad : \A h \in bad : j <= h
             IN  Err(<<"'">> \o trim(ts[k]) \o <<"' is not a valid positive integer">>)

(* The capacity text at width mx: Some(v) for Ok(v) if v > 0.              *)
wide_parse_capacity(cap_str, mx) ==
    LET r == wide_parse_usize(trim(cap_str), mx)
    IN  IF r # None /\ r[1] # WZero THEN r ELSE None

(* A wide number as an integer, and a column index as a wide number.       *)
RECURSIVE WValue(_)
WValue(d) ==
    IF d = <<>> THEN 0 ELSE 10 * WValue(SubSeq(d, 1, Len(d) - 1)) + d[Len(d)]

RECURSIVE ToWide(_)
ToWide(v) ==
    IF v < 10 THEN <<v>> ELSE ToWide(v \div 10) \o <<v % 10>>

(* The inner loop of knapsack_table on wide weights, benefits and cells,   *)
(* the addition wrapping at mx.                                            *)
wide_table_row(prev, w, b, cap, mx) ==
    [c1 \in 1..(cap + 1) |->
        LET c == c1 - 1
        IN  IF ~WLe(w, ToWide(c)) THEN prev[c1]
            ELSE LET t == wrapping_add(prev[c1 - WValue(w)], b, mx)
                 IN  IF WLe(t, prev[c1]) THEN prev[c1] ELSE t]

RECURSIVE wide_table_rows(_, _, _, _, _)
wide_table_rows(i, cap, weights, benefits, mx) ==
    IF i = 0 THEN <<[c1 \in 1..(cap + 1) |-> WZero]>>
    ELSE LET t == wide_table_rows(i - 1, cap, weights, benefits, mx)
         IN  Append(t, wide_table_row(t[i], weights[i], benefits[i], cap, mx))

wide_knapsack_table(cap, weights, benefits, mx) ==
    wide_table_rows(Len(weights), cap, weights, benefits, mx)

(* Some addition table[i - 1][c - w] + b of knapsack_table exceeds mx.     *)
add_overflows(cap, weights, benefits, mx) ==
    LET t == wide_knapsack_table(cap, weights, benefits, mx)
    IN  \E i \in 1..Len(weights), c \in 0..cap :
            /\ WLe(weights[i], ToWide(c))
            /\ ~WLe(WAdd(Cell(t, i - 1, c - WValue(weights[i])), benefits[i]), mx)

(* The validation of on_solve at width mx.                                 *)
wide_solve_error(cap_str, w_str, b_str, mx) ==
    LET ws == wide_parse_list(w_str, mx)
        bs == wide_parse_list(b_str, mx)
    IN  IF wide_parse_capacity(cap_str, mx) = None THEN Some(MsgCapacity)
        ELSE IF ~ws.ok THEN Some(MsgWeights(ws.err))
        ELSE IF ws.val = <<>> THEN Some(MsgEmptyWeights)
        ELSE IF ~bs.ok THEN Some(MsgBenefits(bs.err))
        ELSE IF Len(ws.val) # Len(bs.val)
             THEN Some(MsgLength(Len(ws.val), Len(bs.val)))
        ELSE None

(* The validation of on_step at width mx.                                  *)
wide_step_error(cap_str, w_str, b_str, mx) ==
    LET ws == wide_parse_list(w_str, mx)
        bs == wide_parse_list(b_str, mx)
    IN  IF wide_parse_capacity(cap_str, mx) = None THEN Some(MsgCapacity)
        ELSE IF ~ws.ok THEN Some(MsgWeights(ws.err))
        ELSE IF ws.val = <<>> THEN Some(MsgEmptyWeights)
        ELSE IF ~bs.ok THEN Some(MsgBenefits(bs.err))
        ELSE IF Len(ws.val) # Len(bs.val)
             THEN Some(MsgLength(Len(ws.val), Len(bs.val)))
        ELSE None

Panicked == ~Idle /\ Head(pc).sig = "panic"

(* capacity + 1, the length of a row, exceeds mx.                          *)
capacity_overflows(cap, mx) == cap = mx

(* The longest Vec<usize> that can be allocated: isize::MAX bytes, in      *)
(* elements of 4 bytes (2^29 - 1) or of 8 bytes (2^60 - 1).                *)
MaxRowLen32 == <<5, 3, 6, 8, 7, 0, 9, 1, 1>>

MaxRowLen64 == <<1, 1, 5, 2, 9, 2, 1, 5, 0, 4, 6, 0, 6, 8, 4, 6, 9, 7, 5>>

MaxRowLenOf(mx) == IF mx = UsizeMax32 THEN MaxRowLen32 ELSE MaxRowLen64

(* vec![0usize; capacity + 1] asks for more than isize::MAX bytes.         *)
alloc_overflows(cap, mx) == ~WLe(WAdd(cap, WOne), MaxRowLenOf(mx))

(* knapsack_table and the five writes after it, on a validated form; a     *)
(* panic comes before every write but the clearing of the error message.   *)
(* With capacity = mx the row length capacity + 1 overflows: a build with  *)
(* overflow checks panics there, a build without makes rows of length 0    *)
(* and panics at the first cell it indexes (there is at least one item).   *)
(* A row longer than an allocation can be panics in vec! in every build.   *)
(* Otherwise a build with overflow checks panics at the first sum that     *)
(* overflows. Memory is not modelled: a row that can be allocated is.      *)
wide_store(cap_str, w_str, b_str, mx, checks, rev) ==
    LET capw == wide_parse_capacity(cap_str, mx)[1]
        cap  == WValue(capw)
        ws   == wide_parse_list(w_str, mx).val
        bs   == wide_parse_list(b_str, mx).val
    IN  IF capacity_overflows(capw, mx)
        THEN /\ pc' = <<Write("panic",
                          IF checks
                          THEN <<"attempt to add with overflow">>
                          ELSE <<"index out of bounds: the len is 0 but the index is 0">>)>>
             /\ UNCHANGED stored
        ELSE IF alloc_overflows(capw, mx)
        THEN /\ pc' = <<Write("panic", <<"capacity overflow">>)>>
             /\ UNCHANGED stored
        ELSE IF checks /\ add_overflows(cap, ws, bs, mx)
        THEN /\ pc' = <<Write("panic", <<"attempt to add with overflow">>)>>
             /\ UNCHANGED stored
        ELSE /\ capacity' = cap
             /\ item_weights' = ws
             /\ item_benefits' = bs
             /\ dp_table' = Some(wide_knapsack_table(cap, ws, bs, mx))
             /\ revealed' = rev
             /\ UNCHANGED pc

(* on_solve at machine width, for a target of 32 or 64 bits built with or  *)
(* without overflow checks.                                                *)
wide_on_solve ==
    /\ Idle
    /\ \E bits \in {32, 64}, checks \in BOOLEAN :
          LET mx == UsizeMaxOf(bits)
              e  == wide_solve_error(capacity_input, weights_input, benefits_input, mx)
          IN  /\ error_msg' = e
              /\ IF e # None
                 THEN UNCHANGED <<stored, pc>>
                 ELSE wide_store(capacity_input, weights_input, benefits_input,
                                 mx, checks, solve_reveal)
    /\ UNCHANGED form

(* on_step at machine width: without a table it validates, builds the      *)
(* table and reveals the first cell; with a table it reads no cell.        *)
wide_on_step ==
    /\ Idle
    /\ IF dp_table = None
       THEN /\ \E bits \in {32, 64}, checks \in BOOLEAN :
                  LET mx == UsizeMaxOf(bits)
                      e  == wide_step_error(capacity_input, weights_input,
                                            benefits_input, mx)
                  IN  /\ error_msg' = e
                      /\ IF e # None
                         THEN UNCHANGED <<stored, pc>>
                         ELSE wide_store(capacity_input, weights_input,
                                         benefits_input, mx, checks, first_reveal)
            /\ UNCHANGED form
       ELSE on_step

WideCapacityTexts ==
    { <<"1">>, <<"\t", "2">>,
      <<"1", "1", "5", "2", "9", "2", "1", "5", "0", "4", "6", "0", "6", "8",
        "4", "6", "9", "7", "5">>,
      <<"1", "8", "4", "4", "6", "7", "4", "4", "0", "7", "3", "7", "0", "9",
        "5", "5", "1", "6", "1", "5">> }

WideWeightsTexts ==
    { <<"0", ",", "0">>, <<"1", ",", "0">>, <<"0", ",", "1">>, <<"1", ",", "1">>,
      <<"1", ",", "4", "2", "9", "4", "9", "6", "7", "2", "9", "6">> }

WideBenefitsTexts ==
    { <<"3", ",", "4">>,
      <<"4", "2", "9", "4", "9", "6", "7", "2", "9", "4", ",", "1">>,
      <<"4", "2", "9", "4", "9", "6", "7", "2", "9", "5", ",", "1">>,
      <<"1", "8", "4", "4", "6", "7", "4", "4", "0", "7", "3", "7", "0", "9",
        "5", "5", "1", "6", "1", "4", ",", "1">>,
      <<"1", "8", "4", "4", "6", "7", "4", "4", "0", "7", "3", "7", "0", "9",
        "5", "5", "1", "6", "1", "5", ",", "1">>,
      <<"1", "8", "4", "4", "6", "7", "4", "4", "0", "7", "3", "7", "0", "9",
        "5", "5", "1", "6", "1", "6", ",", "1">> }

InitWide ==
    /\ capacity_input \in WideCapacityTexts
    /\ weights_input \in WideWeightsTexts
    /\ benefits_input \in WideBenefitsTexts
    /\ InitSolver

NextWide == wide_on_solve \/ wide_on_step

SpecWide == InitWide /\ [][NextWide]_vars

-----------------------------------------------------------------------------
(* Vocabulary of the properties                                            *)

HasTable == dp_table # None

Table == dp_table[1]

NotStarted == dp_table = None /\ revealed = Some(0)

AllRevealed == HasTable /\ revealed = None

PartiallyRevealed == HasTable /\ revealed # None

DataCells == (1..n_items) \X (0..capacity)

(* The form holds a valid instance: a capacity > 0 and two lists of        *)
(* non-negative integers of the same length.                               *)
FormCapacityValid ==
    LET r == parse_usize(trim(capacity_input))
    IN  r # None /\ r[1] > 0

FormValid ==
    /\ FormCapacityValid
    /\ parse_list(weights_input).ok
    /\ parse_list(benefits_input).ok
    /\ Len(parse_list(weights_input).val) = Len(parse_list(benefits_input).val)

(* A handler run that validates the form: Solve, or Step without a table.  *)
Validating == on_solve \/ (dp_table = None /\ on_step)

RECURSIVE SumOver(_, _)
SumOver(S, xs) ==
    IF S = {} THEN 0
    ELSE LET k == CHOOSE j \in S : TRUE
         IN  xs[k] + SumOver(S \ {k}, xs)

(* The 0/1 knapsack optimum by enumeration: the best total benefit of a    *)
(* subset of the first i items of total weight at most w.                  *)
BruteForce(weights, benefits, i, w) ==
    LET fits == {S \in SUBSET (1..i) : SumOver(S, weights) <= w}
    IN  CHOOSE v \in {SumOver(S, benefits) : S \in fits} :
            \A S \in fits : SumOver(S, benefits) <= v

-----------------------------------------------------------------------------
(* C1: every cell table[i][w] of the stored table is the maximum total     *)
(* benefit over the subsets of the first i items of total weight at most   *)
(* w; for capacity 6, weights [2,3,4], benefits [3,4,5] the final cell     *)
(* table[3][6] is the optimum 8.                                           *)
C1_TableIsOptimum ==
    HasTable =>
        /\ \A i \in 0..n_items, w \in 0..capacity :
              Cell(Table, i, w) = BruteForce(item_weights, item_benefits, i, w)
        /\ (capacity = 6 /\ item_weights = <<2, 3, 4>> /\ item_benefits = <<3, 4, 5>>)
              => Cell(Table, 3, 6) = 8

C1_Witness ==
    /\ HasTable
    /\ capacity = 6 /\ item_weights = <<2, 3, 4>> /\ item_benefits = <<3, 4, 5>>
    /\ Cell(Table, 3, 6) = BruteForce(item_weights, item_benefits, 3, 6)

(* C2: the stored table has n + 1 rows of capacity + 1 columns, row 0 is   *)
(* all zeros, and no cell is smaller than the cell above it.               *)
C2_TableShape ==
    HasTable =>
        /\ capacity > 0 /\ n_items >= 1 /\ Len(item_benefits) = n_items
        /\ Len(Table) = n_items + 1
        /\ \A k \in 1..Len(Table) : Len(Table[k]) = capacity + 1
        /\ \A w \in 0..capacity : Cell(Table, 0, w) = 0
        /\ \A i \in 1..n_items, w \in 0..capacity :
              Cell(Table, i, w) >= Cell(Table, i - 1, w)

C2_Witness ==
    /\ HasTable
    /\ n_items = 2
    /\ \E w \in 0..capacity : Cell(Table, 2, w) > Cell(Table, 1, w)
    /\ \E w \in 0..capacity : Cell(Table, 1, w) > Cell(Table, 0, w)

(* C3: a Step from NotStarted with a valid form gives PartiallyRevealed(1);*)
(* a Step at PartiallyRevealed(r) with r + 1 <= total_cells gives          *)
(* PartiallyRevealed(r + 1); a Step at PartiallyRevealed(total_cells)      *)
(* gives AllRevealed; a Step at AllRevealed gives PartiallyRevealed(1);    *)
(* with a table, a Step keeps the table.                                   *)
C3_RevealMonotone ==
    [][on_step =>
        /\ (NotStarted /\ FormValid) => (HasTable' /\ revealed' = Some(1))
        /\ (PartiallyRevealed /\ revealed[1] + 1 <= total_cells)
              => (revealed' = Some(revealed[1] + 1) /\ dp_table' = dp_table)
        /\ (PartiallyRevealed /\ revealed[1] = total_cells)
              => (revealed' = None /\ dp_table' = dp_table)
        /\ AllRevealed => (revealed' = Some(1) /\ dp_table' = dp_table)
      ]_vars

C3_Witness ==
    /\ PartiallyRevealed
    /\ total_cells > 2
    /\ revealed = Some(total_cells)

(* C4: a Solve on a valid form, from any state, gives AllRevealed and      *)
(* stores the capacity, weights and benefits of the form and their table.  *)
C4_SolveAllRevealed ==
    [][(on_solve /\ FormValid) =>
        /\ revealed' = None
        /\ capacity' = parse_usize(trim(capacity_input))[1]
        /\ item_weights' = parse_list(weights_input).val
        /\ item_benefits' = parse_list(benefits_input).val
        /\ dp_table' = Some(knapsack_table(capacity', item_weights', item_benefits'))
      ]_vars

C4_Witness ==
    /\ AllRevealed
    /\ error_msg = None
    /\ FormValid
    /\ item_weights = parse_list(weights_input).val
    /\ item_weights # <<2, 3, 4>>
    /\ capacity = 2

(* C5: in PartiallyRevealed(r) a data cell (i,c) is visible exactly when   *)
(* (i-1)*(capacity+1) + c < r, exactly r data cells are visible, and a     *)
(* hidden cell is rendered hidden with the empty text; in AllRevealed      *)
(* every data cell is visible; a visible cell shows its value.             *)
C5_Visibility ==
    HasTable =>
        /\ PartiallyRevealed =>
              /\ \A p \in DataCells :
                    is_visible(p[1], p[2], n_cols)
                        <=> (p[1] - 1) * (capacity + 1) + p[2] < revealed[1]
              /\ Cardinality({p \in DataCells : is_visible(p[1], p[2], n_cols)})
                    = revealed[1]
        /\ AllRevealed => \A p \in DataCells : is_visible(p[1], p[2], n_cols)
        /\ \A p \in DataCells :
              IF is_visible(p[1], p[2], n_cols)
              THEN /\ cls(p[1], p[2]) # "cell cell-hidden"
                   /\ cell_text(p[1], p[2]) = to_string(Cell(Table, p[1], p[2]))
              ELSE /\ cls(p[1], p[2]) = "cell cell-hidden"
                   /\ cell_text(p[1], p[2]) = <<>>

C5_Witness ==
    /\ PartiallyRevealed
    /\ revealed[1] > n_cols + 1
    /\ revealed[1] < total_cells - 1
    /\ \E p \in DataCells : ~is_visible(p[1], p[2], n_cols)

(* C6: every data cell has one classification: hidden iff not visible,     *)
(* otherwise active if it is the active cell, otherwise took if the took   *)
(* test holds, otherwise normal; in PartiallyRevealed(r) exactly one data  *)
(* cell is active, the visible cell with linear index r - 1; in            *)
(* AllRevealed no cell is active.                                          *)
C6_Classification ==
    HasTable =>
        /\ \A p \in DataCells :
              LET i == p[1]
                  c == p[2]
                  visible == IF revealed = None THEN TRUE
                             ELSE linear(i, c) < revealed[1]
                  active == revealed # None /\ linear(i, c) = revealed[1] - 1
              IN  /\ cls(i, c) = "cell cell-hidden" <=> ~visible
                  /\ cls(i, c) = "cell cell-active" <=> (visible /\ active)
                  /\ cls(i, c) = "cell cell-took"
                        <=> (visible /\ ~active /\ took_item(i, c))
                  /\ cls(i, c) = "cell"
                        <=> (visible /\ ~active /\ ~took_item(i, c))
        /\ PartiallyRevealed =>
              /\ Cardinality({p \in DataCells : cls(p[1], p[2]) = "cell cell-active"}) = 1
              /\ \A p \in DataCells :
                    cls(p[1], p[2]) = "cell cell-active"
                        <=> linear(p[1], p[2]) = revealed[1] - 1
        /\ AllRevealed =>
              \A p \in DataCells : cls(p[1], p[2]) # "cell cell-active"

C6_Witness ==
    /\ PartiallyRevealed
    /\ \E p \in DataCells :
          cls(p[1], p[2]) = "cell cell-active" /\ took_item(p[1], p[2])
    /\ \E p \in DataCells : cls(p[1], p[2]) = "cell cell-took"
    /\ \E p \in DataCells : cls(p[1], p[2]) = "cell"
    /\ \E p \in DataCells : cls(p[1], p[2]) = "cell cell-hidden"

(* C7: a data cell is classified took only when the item fits             *)
(* (weight[i] <= c), table[i][c] = table[i-1][c - weight[i]] + benefit[i]  *)
(* and table[i][c] > table[i-1][c]; a visible non-active cell where        *)
(* taking and skipping tie is classified normal.                           *)
C7_TookStrict ==
    HasTable =>
        \A p \in DataCells :
            LET i  == p[1]
                c  == p[2]
                wi == item_weights[i]
                bi == item_benefits[i]
            IN  /\ cls(i, c) = "cell cell-took" =>
                      /\ wi <= c
                      /\ Cell(Table, i, c) = Cell(Table, i - 1, c - wi) + bi
                      /\ Cell(Table, i, c) > Cell(Table, i - 1, c)
                /\ ( /\ is_visible(i, c, n_cols)
                     /\ ~is_active(i, c)
                     /\ wi <= c
                     /\ Cell(Table, i - 1, c - wi) + bi = Cell(Table, i - 1, c) )
                      => cls(i, c) = "cell"

C7_Witness ==
    /\ HasTable
    /\ \E p \in DataCells : cls(p[1], p[2]) = "cell cell-took"
    /\ \E p \in DataCells :
          /\ is_visible(p[1], p[2], n_cols) /\ ~is_active(p[1], p[2])
          /\ item_weights[p[1]] <= p[2]
          /\ item_benefits[p[1]] = 0
          /\ Cell(Table, p[1], p[2]) > 0
          /\ Cell(Table, p[1] - 1, p[2] - item_weights[p[1]]) + item_benefits[p[1]]
                = Cell(Table, p[1] - 1, p[2])
          /\ cls(p[1], p[2]) = "cell"

(* C8: when a Solve, or a Step without a table, finds the form invalid,    *)
(* the table, weights, benefits, capacity and reveal state stay as they    *)
(* were and an error message is shown; when it finds the form valid, it    *)
(* succeeds: no error is shown and the table of the form is stored.        *)
C8_FailedValidation ==
    [][ /\ (Validating /\ ~FormValid) => (UNCHANGED stored /\ error_msg' # None)
        /\ (Validating /\ FormValid) =>
              /\ error_msg' = None
              /\ dp_table' = Some(knapsack_table(
                                parse_usize(trim(capacity_input))[1],
                                parse_list(weights_input).val,
                                parse_list(benefits_input).val))
      ]_vars

C8_Witness ==
    /\ PartiallyRevealed
    /\ revealed[1] > 1
    /\ error_msg # None
    /\ ~FormValid

(* A text with no weights: empty or all white space.                       *)
NoWeights(s) == \A k \in 1..Len(s) : IsSpace(s[k])

(* C9: with a valid capacity, a weights text with no weights is rejected   *)
(* with "Enter at least one weight.".                                      *)
C9_EmptyWeights ==
    [][(Validating /\ FormCapacityValid /\ NoWeights(weights_input))
          => error_msg' = Some(<<"Enter at least one weight.">>)
      ]_vars

(* C10: with a valid capacity and two lists that parse, lists of different *)
(* lengths are rejected with the message naming len(weights) and then      *)
(* len(benefits), and lists of equal length are accepted; weights "1,2"    *)
(* and benefits "1,2,3" give the message with 2 and 3.                     *)
C10_LengthMismatch ==
    [][(/\ Validating
        /\ FormCapacityValid
        /\ parse_list(weights_input).ok
        /\ parse_list(benefits_input).ok) =>
          LET wl == Len(parse_list(weights_input).val)
              bl == Len(parse_list(benefits_input).val)
          IN  /\ wl # bl =>
                    /\ error_msg' = Some(<<"Number of weights (">> \o to_string(wl)
                                          \o <<") must equal number of benefits (">>
                                          \o to_string(bl) \o <<").">>)
                    /\ UNCHANGED stored
              /\ wl = bl => error_msg' = None
              /\ ( /\ weights_input = <<"1", ",", "2">>
                   /\ benefits_input = <<"1", ",", "2", ",", "3">> )
                    => error_msg' = Some(<<"Number of weights (", "2",
                                           ") must equal number of benefits (", "3",
                                           ").">>)
      ]_vars

C10_Witness ==
    /\ weights_input = <<"1", ",", "2">>
    /\ benefits_input = <<"1", ",", "2", ",", "3">>
    /\ error_msg = Some(<<"Number of weights (", "2",
                          ") must equal number of benefits (", "3", ").">>)

(* A token is a non-negative integer: decimal digits, with an optional     *)
(* sign '+'.                                                               *)
IsNonNegInt(t) ==
    \/ t # <<>> /\ \A k \in 1..Len(t) : IsDigit(t[k])
    \/ Len(t) >= 2 /\ t[1] = "+" /\ \A k \in 2..Len(t) : IsDigit(t[k])

BadTokens(s) == {k \in 1..Len(split(s)) : ~IsNonNegInt(trim(split(s)[k]))}

(* The first token of the list text that is no non-negative integer,       *)
(* trimmed.                                                                *)
FirstBadToken(s) ==
    trim(split(s)[CHOOSE k \in BadTokens(s) : \A h \in BadTokens(s) : k <= h])

TokenMessage(field, token) ==
    Some(<<field, "'">> \o token \o <<"' is not a valid positive integer">>)

(* C11 as stated: with a valid capacity, a weights list with a bad token   *)
(* is rejected with the weights message naming the first bad token, and a  *)
(* benefits list with a bad token is rejected with the benefits message    *)
(* naming the first bad token.                                             *)
C11_InvalidTokenAsStated ==
    [][(Validating /\ FormCapacityValid) =>
          /\ BadTokens(weights_input) # {} =>
                error_msg' = TokenMessage("Weights: ", FirstBadToken(weights_input))
          /\ BadTokens(benefits_input) # {} =>
                error_msg' = TokenMessage("Benefits: ", FirstBadToken(benefits_input))
      ]_vars

(* C11 amended: with a valid capacity, a weights list with a bad token is  *)
(* rejected with the weights message naming its first bad token, trimmed   *)
(* ("2,x,4" names x); a benefits list with a bad token is rejected with    *)
(* the benefits message naming its first bad token, trimmed, when the      *)
(* weights list has no bad token.                                          *)
C11_InvalidToken ==
    [][(Validating /\ FormCapacityValid) =>
          /\ BadTokens(weights_input) # {} =>
                /\ error_msg' = TokenMessage("Weights: ", FirstBadToken(weights_input))
                /\ UNCHANGED stored
          /\ (BadTokens(weights_input) = {} /\ BadTokens(benefits_input) # {}) =>
                /\ error_msg' = TokenMessage("Benefits: ", FirstBadToken(benefits_input))
                /\ UNCHANGED stored
          /\ weights_input = <<"2", ",", "x", ",", "4">> =>
                error_msg' = Some(<<"Weights: ", "'", "x",
                                    "' is not a valid positive integer">>)
      ]_vars

C11_Witness ==
    /\ benefits_input = <<" ", "-", "1", ",", "y">>
    /\ BadTokens(weights_input) = {}
    /\ error_msg = Some(<<"Benefits: ", "'", "-", "1",
                          "' is not a valid positive integer">>)

(* C12 as stated: a Step taken while a table exists changes only the       *)
(* reveal state.                                                           *)
C12_StepFrameAsStated ==
    [][(HasTable /\ on_step) =>
          UNCHANGED <<error_msg, dp_table, item_weights, item_benefits, capacity, form>>
      ]_vars

(* C12 amended: a Step taken while a table exists changes the reveal state *)
(* and clears the error message, and nothing else: table, weights,         *)
(* benefits, capacity and form are unchanged, and the Step goes through    *)
(* with no error whatever the form holds; the stored table changes only    *)
(* through a Solve or a Step without a table that finds the form valid.    *)
C12_StepFrame ==
    [][ /\ (HasTable /\ on_step) =>
              /\ UNCHANGED <<dp_table, item_weights, item_benefits, capacity, form>>
              /\ error_msg' = None
              /\ revealed' # revealed
        /\ dp_table' # dp_table => (Validating /\ FormValid /\ error_msg' = None)
      ]_vars

C12_Witness ==
    /\ PartiallyRevealed
    /\ revealed[1] > 1
    /\ error_msg = None
    /\ ~FormValid
    /\ ENABLED (on_step /\ revealed' = Some(revealed[1] + 1))

(* C13: total = n_items * (capacity + 1); done = total in AllRevealed, r   *)
(* in PartiallyRevealed(r), 0 in NotStarted; percent is the floor of       *)
(* done * 100 / total when total > 0 and 0 otherwise, within 0..100; the   *)
(* label is empty when total = 0, the completion text when done >= total,  *)
(* and "done / total cells" otherwise.                                     *)
C13_Progress ==
    /\ progress_total = n_items * (capacity + 1)
    /\ AllRevealed => progress_done = n_items * (capacity + 1)
    /\ PartiallyRevealed => progress_done = revealed[1]
    /\ NotStarted => progress_done = 0
    /\ progress_pct \in 0..100
    /\ IF progress_total > 0
       THEN /\ progress_pct * progress_total <= progress_done * 100
            /\ progress_done * 100 < (progress_pct + 1) * progress_total
       ELSE progress_pct = 0
    /\ progress_total = 0 => progress_label = <<>>
    /\ (progress_total > 0 /\ progress_done >= progress_total)
          => progress_label = <<"U+2713 Complete">>
    /\ (progress_total > 0 /\ progress_done < progress_total)
          => progress_label = to_string(progress_done) \o <<" / ">>
                                \o to_string(n_items * (capacity + 1)) \o <<" cells">>

C13_Witness ==
    /\ PartiallyRevealed
    /\ progress_done = 5 /\ progress_total = 21
    /\ progress_pct = 23
    /\ progress_label = <<"5", " / ", "2", "1", " cells">>

(* The table of the stored instance in exact arithmetic: the maximum is    *)
(* beyond every sum the instance can reach.                                *)
ExactTable ==
    wide_knapsack_table(capacity, item_weights, item_benefits,
                        WAdd(WAdd(UsizeMax64, UsizeMax64), UsizeMax64))

(* C15: on a validated instance of machine-width integers no handler       *)
(* fails and no addition overflows: no run ends in a panic and every       *)
(* stored table is the table of exact arithmetic.                          *)
C15_NeverFails ==
    /\ ~Panicked
    /\ HasTable => Table = ExactTable

(* The instance the form denotes, for a valid form.                        *)
FormCapacity == parse_usize(trim(capacity_input))[1]

FormWeights == parse_list(weights_input).val

FormBenefits == parse_list(benefits_input).val

(* The state is the one a Solve on the present form leaves.                *)
SolvedForm ==
    /\ FormValid
    /\ error_msg = None
    /\ revealed = None
    /\ capacity = FormCapacity
    /\ item_weights = FormWeights
    /\ item_benefits = FormBenefits
    /\ dp_table = Some(knapsack_table(FormCapacity, FormWeights, FormBenefits))

(* C16: a Solve on a valid form leaves a state that depends on the form    *)
(* alone (no error message, AllRevealed, the instance of the form and its  *)
(* table, the form as it was), from every prior state; a Solve applied to  *)
(* the state a Solve has left changes nothing.                             *)
C16_SolveIdempotent ==
    [][ /\ (on_solve /\ FormValid) =>
              /\ error_msg' = None
              /\ revealed' = None
              /\ capacity' = FormCapacity
              /\ item_weights' = FormWeights
              /\ item_benefits' = FormBenefits
              /\ dp_table' = Some(knapsack_table(FormCapacity, FormWeights,
                                                 FormBenefits))
              /\ form' = form
        /\ (on_solve /\ SolvedForm) => UNCHANGED vars
      ]_vars

C16_Witness ==
    /\ SolvedForm
    /\ capacity = 2
    /\ item_weights = <<2, 3, 4>>
    /\ item_benefits = <<1, 2, 3>>

(* C17: the table is absent exactly when revealed is Some(0); with a table *)
(* the reveal state is AllRevealed or PartiallyRevealed(count) with        *)
(* 1 <= count <= total_cells, and total_cells = n_items * (capacity + 1)   *)
(* is at least 1.                                                          *)
C17_RevealWellFormed ==
    /\ dp_table = None <=> revealed = Some(0)
    /\ HasTable =>
          /\ total_cells = n_items * (capacity + 1)
          /\ total_cells >= 1
          /\ revealed = None \/ (1 <= revealed[1] /\ revealed[1] <= total_cells)

C17_Witness ==
    /\ PartiallyRevealed
    /\ revealed = Some(1)
    /\ total_cells = 6

(* C18: a stored table has len(item_weights) + 1 = len(item_benefits) + 1  *)
(* rows and capacity + 1 columns and is the table of the stored capacity,  *)
(* weights and benefits, so ws[i-1], bs[i-1] and table[i][c] are in range  *)
(* for 1 <= i <= n and 0 <= c <= capacity.                                 *)
C18_TableMatchesInstance ==
    HasTable =>
        /\ Len(Table) = Len(item_weights) + 1
        /\ Len(Table) = Len(item_benefits) + 1
        /\ \A k \in 1..Len(Table) : Len(Table[k]) = capacity + 1
        /\ Table = knapsack_table(capacity, item_weights, item_benefits)
        /\ \A p \in DataCells :
              /\ p[1] \in DOMAIN item_weights /\ p[1] \in DOMAIN item_benefits
              /\ p[1] + 1 \in DOMAIN Table /\ p[2] + 1 \in DOMAIN Table[p[1] + 1]

C18_Witness ==
    /\ HasTable
    /\ capacity = 2
    /\ item_weights = <<1, 2>>
    /\ item_benefits = <<0, 2>>
    /\ capacity_input = DefaultCapacity

(* The message the validation order capacity, weights, benefits, lengths   *)
(* gives for the form, or None.                                            *)
ExpectedError ==
    IF ~FormCapacityValid
    THEN Some(<<"Capacity (m) must be a positive integer.">>)
    ELSE IF BadTokens(weights_input) # {}
    THEN TokenMessage("Weights: ", FirstBadToken(weights_input))
    ELSE IF BadTokens(benefits_input) # {}
    THEN TokenMessage("Benefits: ", FirstBadToken(benefits_input))
    ELSE IF Len(split(weights_input)) # Len(split(benefits_input))
    THEN Some(<<"Number of weights (">> \o to_string(Len(split(weights_input)))
                \o <<") must equal number of benefits (">>
                \o to_string(Len(split(benefits_input))) \o <<").">>)
    ELSE None

(* What a validating handler does to the form's instance, rev being the    *)
(* reveal state it ends in.                                                *)
ValidatedOutcome(rev) ==
    IF ExpectedError # None
    THEN error_msg' = ExpectedError /\ UNCHANGED stored
    ELSE /\ error_msg' = None
         /\ capacity' = FormCapacity
         /\ item_weights' = FormWeights
         /\ item_benefits' = FormBenefits
         /\ dp_table' = Some(knapsack_table(FormCapacity, FormWeights, FormBenefits))
         /\ revealed' = rev

(* C19: on every form, a Solve and a Step without a table either both      *)
(* fail with the same message, that of the first failing check in the      *)
(* order capacity, weights, benefits, lengths, or both store the same      *)
(* capacity, weights, benefits and table, Solve ending in AllRevealed and  *)
(* Step in PartiallyRevealed(1).                                           *)
C19_SameValidation ==
    [][ /\ on_solve => ValidatedOutcome(None)
        /\ (dp_table = None /\ on_step) => ValidatedOutcome(Some(1))
      ]_vars

C19_Witness ==
    /\ dp_table = None
    /\ FormCapacityValid
    /\ BadTokens(weights_input) # {}
    /\ BadTokens(benefits_input) # {}
    /\ error_msg = ExpectedError
    /\ ENABLED (on_step /\ error_msg' = error_msg)
    /\ ENABLED (on_solve /\ error_msg' = error_msg)

(* C20: with a table, the label is the completion text exactly when every  *)
(* data cell is visible: in AllRevealed, and in                            *)
(* PartiallyRevealed(total_cells), where done = total and the last cell    *)
(* (n, capacity) is classified active; in PartiallyRevealed(r) with        *)
(* r < total_cells the label is "r / total cells".                         *)
C20_CompleteLabel ==
    HasTable =>
        /\ progress_label = <<"U+2713 Complete">>
              <=> \A p \in DataCells : is_visible(p[1], p[2], n_cols)
        /\ AllRevealed => progress_label = <<"U+2713 Complete">>
        /\ (PartiallyRevealed /\ revealed[1] = total_cells) =>
              /\ progress_done = progress_total
              /\ progress_label = <<"U+2713 Complete">>
              /\ cls(n_items, capacity) = "cell cell-active"
        /\ (PartiallyRevealed /\ revealed[1] < total_cells) =>
              progress_label = to_string(revealed[1]) \o <<" / ">>
                                  \o to_string(total_cells) \o <<" cells">>

C20_Witness ==
    /\ PartiallyRevealed
    /\ revealed[1] = total_cells
    /\ progress_label = <<"U+2713 Complete">>
    /\ cls(n_items, capacity) = "cell cell-active"
    /\ total_cells = 21

(* The item of row i fits in column c and the cell's value strictly        *)
(* exceeds the value directly above it.                                    *)
FitsAndExceeds(i, c) ==
    /\ item_weights[i] <= c
    /\ Cell(Table, i, c) > Cell(Table, i - 1, c)

(* C21: on the table of knapsack_table, for every data cell (i, c),        *)
(* weight[i] <= c and table[i][c] > table[i-1][c] imply                    *)
(* table[i][c] = table[i-1][c - weight[i]] + benefit[i]; hence a visible   *)
(* non-active cell is classified took if and only if weight[i] <= c and    *)
(* its value strictly exceeds the value above it.                          *)
C21_EqualityRedundant ==
    HasTable =>
        \A p \in DataCells :
            LET i == p[1]
                c == p[2]
            IN  /\ FitsAndExceeds(i, c) =>
                      Cell(Table, i, c)
                         = Cell(Table, i - 1, c - item_weights[i]) + item_benefits[i]
                /\ (is_visible(i, c, n_cols) /\ ~is_active(i, c)) =>
                      (took_item(i, c) <=> FitsAndExceeds(i, c))
                /\ (is_visible(i, c, n_cols) /\ ~is_active(i, c)) =>
                      (cls(i, c) = "cell cell-took" <=> FitsAndExceeds(i, c))

C21_Witness ==
    /\ HasTable
    /\ \E p \in DataCells :
          /\ is_visible(p[1], p[2], n_cols) /\ ~is_active(p[1], p[2])
          /\ FitsAndExceeds(p[1], p[2])
          /\ Cell(Table, p[1] - 1, p[2]) > 0
          /\ cls(p[1], p[2]) = "cell cell-took"
    /\ \E p \in DataCells :
          /\ is_visible(p[1], p[2], n_cols) /\ ~is_active(p[1], p[2])
          /\ item_weights[p[1]] <= p[2]
          /\ item_benefits[p[1]] > 0
          /\ ~FitsAndExceeds(p[1], p[2])
          /\ cls(p[1], p[2]) = "cell"

=============================================================================
